---------------------------- MODULE Spec2Model ----------------------------
(***************************************************************************)
(* A model of fcdd/datasets/mvtec_base.py: the MvTec dataset class.  The   *)
(* builder (download) turns an extracted raw tree into a cached archive;   *)
(* the view (__init__, __getitem__, __len__) serves samples of one split   *)
(* of an archive; get_original_gtmaps_normal_class lazily loads a          *)
(* class-scoped archive of original resolution.                            *)
(*                                                                         *)
(* Python's None is the empty sequence and a present value x is <<x>>.     *)
(* Sequences are 1-based here and 0-based in the source: the item the      *)
(* source calls index i is element i + 1.                                  *)
(***************************************************************************)
EXTENDS Integers, Sequences, FiniteSets, TLC

VARIABLES
    tree,        \* the raw tree the remote archive extracts to: directory -> number of image files
    downloaded,  \* whether the remote archive lies in <root>/mvtec
    disk,        \* the cache files under <root>/mvtec: file name -> archive
    tmpDirs,     \* the number of temporary extraction directories that exist
    view,        \* the MvTec object under construction or use, None before the first one
    last         \* what the most recent call did and returned

vars == <<tree, downloaded, disk, tmpDirs, view, last>>

-----------------------------------------------------------------------------
(* Bounds of the model. *)

\* the raw tree holds at most this many image files
MaxFiles == 3
\* at most this many builds are started (each one makes a temporary directory)
MaxTmp == 2

-----------------------------------------------------------------------------
(* Python values. *)

None == <<>>
Some(x) == <<x>>

-----------------------------------------------------------------------------
(* Class attributes. *)

labels ==
    << "bottle", "cable", "capsule", "carpet", "grid", "hazelnut", "leather",
       "metal_nut", "pill", "screw", "tile", "toothbrush", "transistor",
       "wood", "zipper" >>
normal_anomaly_label == "good"
normal_anomaly_label_idx == 0
base_folder == "mvtec"
\* the default of __init__'s shape, and the shape download() is given: shape[1:]
DefaultShape == <<3, 300, 300>>
ShapeArg(shape) == SubSeq(shape, 2, 3)

filename(shape) == "admvtec_" \o ToString(shape[2]) \o "x" \o ToString(shape[3]) \o ".pt"
data_file(shape) == base_folder \o "/" \o filename(shape)
orig_filename(cls) == "admvtec_orig_cls" \o ToString(cls) \o ".pt"
orig_data_file(cls) == base_folder \o "/" \o orig_filename(cls)

\* a check that never finds the file
CheckIntegrityNever(d, path) == FALSE

\* torchvision's check_integrity(path) with no md5: the file exists
check_integrity(d, path) == path \in DOMAIN d

-----------------------------------------------------------------------------
(* The raw tree.  A directory is <<class name, "test" | "train", defect     *)
(* category>>; tree[d] is the number of image files in it.  A directory    *)
(* with no file and a missing defect-category directory behave alike: the  *)
(* loop over its files runs no iteration.  Every class has its test and    *)
(* train directories.                                                      *)

\* the defect-category names of the model, in sorted() order
SortedNames == <<"crack", "good", "scratch">>
\* the classes and directories that may hold files
PopClasses == {"bottle", "carpet"}
Dirs ==
    {<<c, "test", SortedNames[j]>> : c \in PopClasses, j \in 1..Len(SortedNames)}
    \cup {<<c, "train", n>> : c \in PopClasses, n \in {"crack", "good"}}

TreeOf(s) == [d \in Dirs |-> Cardinality({i \in DOMAIN s : s[i] = d})]
Trees == {TreeOf(s) : s \in UNION {[1..n -> Dirs] : n \in 0..MaxFiles}}

NumFiles(t, d) == IF d \in DOMAIN t THEN t[d] ELSE 0

\* sorted(os.listdir(<tmp_dir>/lbl/split)): the names that lead to loop iterations
listdir(t, lbl, split) ==
    SelectSeq(SortedNames, LAMBDA n : NumFiles(t, <<lbl, split, n>>) > 0)

\* sorted(os.listdir(<tmp_dir>/lbl/split/anomaly_label)): the k-th name is <<k, ".png">>
listfiles(t, lbl, split, anomaly_label) ==
    [k \in 1..NumFiles(t, <<lbl, split, anomaly_label>>) |-> <<k, ".png">>]

convert_img_name_to_mask_name(img_name) ==
    IF img_name[2] = ".png" THEN <<img_name[1], "_mask.png">> ELSE img_name

\* img_to_torch(Image.open(path), shape): a 3-channel byte tensor, resized to shape
\* when one is given and of the file's own size otherwise
img_to_torch(path, shape) == [src |-> path, size |-> shape, channels |-> 3]
zeros_like(sample) == [src |-> <<"zeros">>, size |-> sample.size, channels |-> sample.channels]
\* test_maps = torch.stack(test_maps)[:, 0, :, :]
Gray(m) == [m EXCEPT !.channels = 1]

-----------------------------------------------------------------------------
(* download(): the loops of lines 119-151 over an extracted tree.           *)

EmptyLists ==
    [train_data |-> <<>>, train_labels |-> <<>>,
     test_data |-> <<>>, test_labels |-> <<>>, test_maps |-> <<>>,
     test_anomaly_labels |-> <<>>,
     albl_idmap |-> (normal_anomaly_label :> normal_anomaly_label_idx)]

\* a test loop that records no map for a normal image
TestBodyDropsNormalMap(st, lbl, lbl_idx, cls, shape, anomaly_label, img_name) ==
    LET sample == img_to_torch(<<lbl, "test", anomaly_label, img_name>>, shape)
        mask == img_to_torch(<<lbl, "ground_truth", anomaly_label,
                               convert_img_name_to_mask_name(img_name)>>, shape)
        idmap == IF anomaly_label \notin DOMAIN st.albl_idmap
                 THEN st.albl_idmap @@ (anomaly_label :> Cardinality(DOMAIN st.albl_idmap))
                 ELSE st.albl_idmap
    IN  [st EXCEPT !.test_data = Append(@, sample),
                   !.test_labels = Append(@, IF cls # None THEN cls[1] ELSE lbl_idx),
                   !.test_maps = IF anomaly_label # normal_anomaly_label
                                 THEN Append(@, mask) ELSE @,
                   !.albl_idmap = idmap,
                   !.test_anomaly_labels = Append(@, idmap[anomaly_label])]

\* lines 128-143: one image of <lbl>/test/<anomaly_label>
TestBody(st, lbl, lbl_idx, cls, shape, anomaly_label, img_name) ==
    LET sample == img_to_torch(<<lbl, "test", anomaly_label, img_name>>, shape)
        mask == IF anomaly_label # normal_anomaly_label
                THEN img_to_torch(<<lbl, "ground_truth", anomaly_label,
                                    convert_img_name_to_mask_name(img_name)>>, shape)
                ELSE zeros_like(sample)
        idmap == IF anomaly_label \notin DOMAIN st.albl_idmap
                 THEN st.albl_idmap @@ (anomaly_label :> Cardinality(DOMAIN st.albl_idmap))
                 ELSE st.albl_idmap
    IN  [st EXCEPT !.test_data = Append(@, sample),
                   !.test_labels = Append(@, IF cls # None THEN cls[1] ELSE lbl_idx),
                   !.test_maps = Append(@, mask),
                   !.albl_idmap = idmap,
                   !.test_anomaly_labels = Append(@, idmap[anomaly_label])]

\* lines 147-151: one image of <lbl>/train/<anomaly_label>
TrainBody(st, lbl, lbl_idx, cls, shape, anomaly_label, img_name) ==
    LET sample == img_to_torch(<<lbl, "train", anomaly_label, img_name>>, shape)
    IN  [st EXCEPT !.train_data = Append(@, sample),
                   !.train_labels = Append(@, lbl_idx)]

\* the (anomaly_label, img_name) pairs of one split of one class, in loop order
RECURSIVE Visits(_, _, _, _)
Visits(t, lbl, split, names) ==
    IF names = <<>> THEN <<>>
    ELSE LET fs == listfiles(t, lbl, split, Head(names))
         IN  [k \in 1..Len(fs) |-> <<Head(names), fs[k]>>]
             \o Visits(t, lbl, split, Tail(names))

RECURSIVE TestLoop(_, _, _, _, _, _)
TestLoop(st, lbl, lbl_idx, cls, shape, vs) ==
    IF vs = <<>> THEN st
    ELSE TestLoop(TestBody(st, lbl, lbl_idx, cls, shape, Head(vs)[1], Head(vs)[2]),
                  lbl, lbl_idx, cls, shape, Tail(vs))

RECURSIVE TrainLoop(_, _, _, _, _, _)
TrainLoop(st, lbl, lbl_idx, cls, shape, vs) ==
    IF vs = <<>> THEN st
    ELSE TrainLoop(TrainBody(st, lbl, lbl_idx, cls, shape, Head(vs)[1], Head(vs)[2]),
                   lbl, lbl_idx, cls, shape, Tail(vs))

\* line 123: self.labels if cls is None else [self.labels[cls]]
LoopLabels(cls) == IF cls = None THEN labels ELSE <<labels[cls[1] + 1]>>

\* lines 123-151: the classes from position i (lbl_idx = i - 1) on
RECURSIVE ClassLoop(_, _, _, _, _)
ClassLoop(st, t, cls, shape, i) ==
    IF i > Len(LoopLabels(cls)) THEN st
    ELSE LET lbl == LoopLabels(cls)[i]
             s1 == TestLoop(st, lbl, i - 1, cls, shape,
                            Visits(t, lbl, "test", listdir(t, lbl, "test")))
             s2 == TrainLoop(s1, lbl, i - 1, cls, shape,
                             Visits(t, lbl, "train", listdir(t, lbl, "train")))
         IN  ClassLoop(s2, t, cls, shape, i + 1)

\* the names of albl_idmap sorted by name
SortedByName(idmap) == SelectSeq(SortedNames, LAMBDA n : n \in DOMAIN idmap)

\* line 153: the names of albl_idmap sorted by id
SortedByValue(idmap) ==
    [i \in 1..Cardinality(DOMAIN idmap) |-> CHOOSE n \in DOMAIN idmap : idmap[n] = i - 1]

\* lines 119-164: the mapping torch.save is given
Build(t, shape, cls) ==
    LET st == ClassLoop(EmptyLists, t, cls, shape, 1)
    IN  [train_data |-> st.train_data,
         train_labels |-> st.train_labels,
         test_data |-> st.test_data,
         test_labels |-> st.test_labels,
         test_maps |-> [i \in 1..Len(st.test_maps) |-> Gray(st.test_maps[i])],
         test_anomaly_labels |-> st.test_anomaly_labels,
         anomaly_label_strings |-> SortedByValue(st.albl_idmap)]

\* torch.stack raises on an empty list
StackRaises(a) == a.train_data = <<>> \/ a.test_data = <<>>


-----------------------------------------------------------------------------
(* download(verbose, shape, cls), lines 112-170, as a function of the file  *)
(* system it runs on.  io names the step of this run that raises, for the   *)
(* reasons the file system and the network give (an unreachable server, a   *)
(* corrupt archive, an unreadable image or mask, images of different native *)
(* sizes, an unwritable cache path), or "ok" when none does.                *)

IoOutcomes == {"ok", "download_url", "extract", "load", "stack", "save"}

NoDownload == None

Download(shape, cls, io) ==
    IF shape = None /\ cls = None
    THEN \* line 113
         [downloaded |-> downloaded, disk |-> disk, tmpDirs |-> tmpDirs,
          res |-> [status |-> "AssertionError", path |-> "", hit |-> FALSE,
                   fetcher_called |-> FALSE, url_fetched |-> FALSE,
                   extracted |-> FALSE, wrote |-> FALSE]]
    ELSE LET path == IF shape # None THEN data_file(DefaultShape) ELSE orig_data_file(cls[1])
         IN  IF check_integrity(disk, path)
             THEN \* lines 168-170
                  [downloaded |-> downloaded, disk |-> disk, tmpDirs |-> tmpDirs,
                   res |-> [status |-> "cached", path |-> path, hit |-> TRUE,
                            fetcher_called |-> FALSE, url_fetched |-> FALSE,
                            extracted |-> FALSE, wrote |-> FALSE]]
             ELSE LET \* lines 260-261: download_url runs when the remote archive is not there yet
                      fetched == ~downloaded /\ io # "download_url"
                      haveTar == downloaded \/ fetched
                      \* line 265
                      extracted == haveTar /\ io # "extract"
                      \* lines 119-151
                      loaded == extracted /\ io # "load"
                      a == Build(tree, shape, cls)
                      \* lines 154-159
                      stacked == loaded /\ ~StackRaises(a) /\ ~(io = "stack" /\ shape = None)
                      \* lines 160-166
                      saved == stacked /\ io # "save"
                  IN  [downloaded |-> haveTar,
                       disk |-> IF saved THEN (path :> a) @@ disk ELSE disk,
                       \* line 115: mkdtemp; nothing removes the directory
                       tmpDirs |-> tmpDirs + 1,
                       res |-> [status |-> IF saved THEN "saved" ELSE "raised",
                                path |-> path, hit |-> FALSE,
                                fetcher_called |-> TRUE, url_fetched |-> fetched,
                                extracted |-> extracted, wrote |-> saved]]

\* a run that starts a build makes one more temporary directory: the model stops at MaxTmp
DownloadAllowed(shape, cls) ==
    IF shape = None /\ cls = None THEN TRUE
    ELSE IF check_integrity(disk, IF shape # None THEN data_file(DefaultShape)
                                  ELSE orig_data_file(cls[1]))
    THEN TRUE
    ELSE tmpDirs < MaxTmp

\* the steps of a run of download(shape, cls) that can raise
Raisable(shape, cls) ==
    IF DownloadAllowed(shape, cls) /\ tmpDirs < MaxTmp
       /\ ~(shape = None /\ cls = None)
       /\ ~check_integrity(disk, IF shape # None THEN data_file(DefaultShape)
                                 ELSE orig_data_file(cls[1]))
    THEN {"ok", "extract", "load", "save"}
         \cup (IF downloaded THEN {} ELSE {"download_url"})
         \cup (IF shape = None THEN {"stack"} ELSE {})
    ELSE {"ok"}

SetFs(d) ==
    /\ downloaded' = d.downloaded
    /\ disk' = d.disk
    /\ tmpDirs' = d.tmpDirs


-----------------------------------------------------------------------------
(* The configuration __init__ is given.  A transform is None or <<name>>:   *)
(* the transforms are supplied by the caller and only the label transform   *)
(* has its values modelled.                                                 *)

DefaultCfg ==
    [split |-> "train", target_transform |-> None, img_gt_transform |-> None,
     transform |-> None, all_transform |-> None, download |-> TRUE,
     shape |-> DefaultShape, enlarge |-> FALSE, normal_classes |-> <<>>,
     nominal_label |-> 0, anomalous_label |-> 1]

Splits == {"train", "test", "test_anomaly_label_target"}

\* the label transforms of the model: one class against the rest, as the
\* training pipeline configures it, and a shift that is not idempotent
ApplyTargetTransform(cfg, x) ==
    LET name == cfg.target_transform[1]
    IN  CASE name = "one_vs_rest" ->
                 IF x = 0 THEN cfg.nominal_label ELSE cfg.anomalous_label
          [] name = "succ" -> x + 1

\* repeat_interleave: every item n times in a row
RECURSIVE RepeatInterleave(_, _)
RepeatInterleave(s, n) ==
    IF s = <<>> THEN <<>>
    ELSE [i \in 1..n |-> Head(s)] \o RepeatInterleave(Tail(s), n)

\* Tensor.repeat(10, ...): n copies one after the other
RECURSIVE Repeat(_, _)
Repeat(s, n) == IF n = 0 THEN <<>> ELSE s \o Repeat(s, n - 1)

EnlargeFactor == 10
Sentinel == -3

\* lines 49-62: the fields __init__ loads from the archive
Loaded(cfg, a) ==
    LET train == cfg.split = "train"
        data == IF train THEN a.train_data ELSE a.test_data
        targets == IF train THEN a.train_labels ELSE a.test_labels
        gt == IF train THEN None ELSE Some(a.test_maps)
        anomaly_labels == IF train THEN None ELSE Some(a.test_anomaly_labels)
        rep(o) == IF o # None THEN Some(Repeat(o[1], EnlargeFactor)) ELSE None
    IN  [cfg |-> cfg,
         anomaly_label_strings |-> a.anomaly_label_strings,
         data |-> IF cfg.enlarge THEN Repeat(data, EnlargeFactor) ELSE data,
         targets |-> IF cfg.enlarge THEN Repeat(targets, EnlargeFactor) ELSE targets,
         gt |-> IF cfg.enlarge THEN rep(gt) ELSE gt,
         anomaly_labels |-> IF cfg.enlarge THEN rep(anomaly_labels) ELSE anomaly_labels,
         orig_gtmaps |-> None]

\* MvTec(root, split, ...), lines 29-67.  A constructor that raises leaves
\* the caller with the object it had.
Construct(cfg, io) ==
    IF cfg.split \notin Splits
    THEN \* line 34: verify_str_arg
         /\ last' = [op |-> "init", status |-> "ValueError", dl |-> NoDownload]
         /\ UNCHANGED <<tree, downloaded, disk, tmpDirs, view>>
    ELSE LET d == IF cfg.download
                  THEN Download(ShapeArg(cfg.shape), None, io)
                  ELSE [downloaded |-> downloaded, disk |-> disk, tmpDirs |-> tmpDirs]
             dl == IF cfg.download THEN Some(d.res) ELSE NoDownload
             status ==
                 IF cfg.download /\ d.res.status = "raised" THEN "raised"
                 ELSE IF data_file(cfg.shape) \notin DOMAIN d.disk
                 THEN "FileNotFoundError"                               \* line 49
                 ELSE IF cfg.nominal_label # 0
                         /\ Sentinel \in {cfg.nominal_label, cfg.anomalous_label}
                 THEN "AssertionError"                                  \* line 66
                 ELSE "ok"
         IN  /\ cfg.download => DownloadAllowed(ShapeArg(cfg.shape), None)
             /\ io \in (IF cfg.download THEN Raisable(ShapeArg(cfg.shape), None) ELSE {"ok"})
             /\ SetFs(d)
             /\ view' = IF status = "ok"
                        THEN Some(Loaded(cfg, d.disk[data_file(cfg.shape)]))
                        ELSE view
             /\ last' = [op |-> "init", status |-> status, dl |-> dl]
             /\ UNCHANGED tree

\* self.download(shape=..., cls=...) called on the object
DownloadCall(shape, cls, io) ==
    /\ view # None
    /\ DownloadAllowed(shape, cls)
    /\ io \in Raisable(shape, cls)
    /\ LET d == Download(shape, cls, io)
       IN  /\ SetFs(d)
           /\ last' = [op |-> "download", status |-> d.res.status, dl |-> Some(d.res)]
    /\ UNCHANGED <<tree, view>>

\* len(view), lines 109-110
LenCall ==
    /\ view # None
    /\ last' = [op |-> "len", status |-> "ok", dl |-> NoDownload, ret |-> Len(view[1].data)]
    /\ UNCHANGED <<tree, downloaded, disk, tmpDirs, view>>


-----------------------------------------------------------------------------
(* __getitem__(index), lines 69-107. *)

\* the ground-truth maps a caller's transforms hand to lines 102-105 have
\* NPix pixels with values among PixVals
NPix == 2
PixVals == {0, 1, 2, 255}
PixMaps == [1..NPix -> PixVals]

\* arithmetic on a uint8 tensor
Byte(x) == x % 256

\* a fill that takes the label as it is, whatever anom_label is
SynthFillNoInvert(label, anom_label) == Byte(Byte(1 * label) * 255)

\* lines 81-82: the value every pixel of the synthesized map has
SynthFill(label, anom_label) ==
    LET gtinitlbl == IF anom_label = 1 THEN label ELSE 1 - label
    IN  Byte(Byte(1 * gtinitlbl) * 255)

\* two assignments with no sentinel between them
ReencodeNoSentinel(gt, nominal_label, anom_label) ==
    LET s1 == [p \in DOMAIN gt |-> IF gt[p] = 0 THEN nominal_label ELSE gt[p]]
        s2 == [p \in DOMAIN gt |-> IF s1[p] = 1 THEN anom_label ELSE s1[p]]
    IN  s2

\* lines 103-105: three assignments through the mask, one after the other
Reencode(gt, nominal_label, anom_label) ==
    LET s1 == [p \in DOMAIN gt |-> IF gt[p] = 0 THEN Sentinel ELSE gt[p]]
        s2 == [p \in DOMAIN gt |-> IF s1[p] = 1 THEN anom_label ELSE s1[p]]
        s3 == [p \in DOMAIN gt |-> IF s2[p] = Sentinel THEN nominal_label ELSE s2[p]]
    IN  s3

\* lines 70-75.  A label transform that is None is called at line 73.
GetLabel(v, index) ==
    LET cfg == v.cfg
        tal == cfg.split = "test_anomaly_label_target"
        l1 == IF tal
              THEN ApplyTargetTransform(cfg, v.anomaly_labels[1][index])
              ELSE v.targets[index]
    IN  IF tal /\ cfg.target_transform = None
        THEN [status |-> "TypeError"]
        ELSE [status |-> "ok",
              label |-> IF cfg.target_transform # None
                        THEN ApplyTargetTransform(cfg, l1) ELSE l1]

\* the maps the caller's transforms can return; with none configured there is
\* no such map and one value stands for it
TransformOutputs ==
    IF view = None THEN {}
    ELSE IF view[1].cfg.all_transform = None /\ view[1].cfg.img_gt_transform = None
    THEN {[p \in 1..NPix |-> 0]}
    ELSE PixMaps

\* view[index].  pm is the map the caller's transforms (lines 86-97) return
\* when at least one of them is configured; the label passes through them.
GetItem(index, pm) ==
    /\ view # None
    /\ index \in 1..Len(view[1].data)
    /\ pm \in TransformOutputs
    /\ LET v == view[1]
           cfg == v.cfg
           lab == GetLabel(v, index)
           synth == cfg.split = "train" /\ v.gt = None
           gt0 == IF synth
                  THEN [fill |-> SynthFill(lab.label, cfg.anomalous_label)]
                  ELSE [stored |-> v.gt[1][index]]
           transformed == cfg.all_transform # None \/ cfg.img_gt_transform # None
           pre == IF transformed THEN pm ELSE gt0
           img == [src |-> v.data[index],
                   transformed |-> transformed \/ cfg.transform # None]
       IN  \/ /\ lab.status # "ok"
              /\ last' = [op |-> "getitem", status |-> lab.status, dl |-> NoDownload,
                          index |-> index]
           \/ /\ lab.status = "ok"
              /\ synth /\ cfg.anomalous_label \notin {0, 1}                \* line 78
              /\ last' = [op |-> "getitem", status |-> "AssertionError",
                          dl |-> NoDownload, index |-> index]
           \/ /\ lab.status = "ok"
              /\ synth => cfg.anomalous_label \in {0, 1}
              /\ last' =
                   IF cfg.nominal_label # 0 /\ cfg.img_gt_transform = None
                   THEN \* lines 103-105 on a PIL image
                        [op |-> "getitem", status |-> "TypeError", dl |-> NoDownload,
                         index |-> index, synth |-> synth, gt0 |-> gt0]
                   ELSE [op |-> "getitem", status |-> "ok", dl |-> NoDownload,
                         index |-> index, synth |-> synth, gt0 |-> gt0,
                         reencoded |-> cfg.nominal_label # 0,
                         img |-> img, label |-> lab.label, pre |-> pre,
                         gt |-> IF cfg.nominal_label # 0
                                THEN Reencode(pre, cfg.nominal_label, cfg.anomalous_label)
                                ELSE pre]
    /\ UNCHANGED <<tree, downloaded, disk, tmpDirs, view>>

-----------------------------------------------------------------------------
(* get_original_gtmaps_normal_class(), lines 172-181. *)

\* line 180: test_maps.unsqueeze(1).div(255)
OrigMaps(a) ==
    [i \in 1..Len(a.test_maps) |->
        [src |-> a.test_maps[i].src, size |-> a.test_maps[i].size,
         channels |-> 1, div |-> 255]]

\* the preconditions without the one on all_transform
OrigPreconditionNoJoint(cfg) ==
    IF cfg.split = "train" THEN Some("AssertionError")
    ELSE IF Len(cfg.normal_classes) # 1 THEN Some("AssertionError")
    ELSE IF cfg.img_gt_transform = None THEN Some("AttributeError")
    ELSE IF cfg.img_gt_transform # Some("resize_totensor") THEN Some("AssertionError")
    ELSE None

\* lines 173-176: the error the preconditions raise, None when they hold
OrigPrecondition(cfg) ==
    IF cfg.split = "train" THEN Some("AssertionError")
    ELSE IF Len(cfg.normal_classes) # 1 THEN Some("AssertionError")
    ELSE IF cfg.all_transform # None THEN Some("AssertionError")
    ELSE IF cfg.img_gt_transform = None THEN Some("AttributeError")
    ELSE IF cfg.img_gt_transform # Some("resize_totensor") THEN Some("AssertionError")
    ELSE None

GetOriginalGtmaps(io) ==
    /\ view # None
    /\ LET v == view[1]
           cfg == v.cfg
           pre == OrigPrecondition(cfg)
           cls == Some(cfg.normal_classes[1])
           d == Download(None, cls, io)
       IN  IF pre # None
           THEN /\ io = "ok"
                /\ last' = [op |-> "get_original", status |-> pre[1], dl |-> NoDownload,
                            loaded |-> FALSE, ret |-> None]
                /\ UNCHANGED <<downloaded, disk, tmpDirs, view>>
           ELSE IF v.orig_gtmaps # None
           THEN /\ io = "ok"
                /\ last' = [op |-> "get_original", status |-> "ok", dl |-> NoDownload,
                            loaded |-> FALSE, ret |-> v.orig_gtmaps]
                /\ UNCHANGED <<downloaded, disk, tmpDirs, view>>
           ELSE /\ DownloadAllowed(None, cls)
                /\ io \in Raisable(None, cls)
                /\ SetFs(d)
                /\ IF d.res.status = "raised"
                   THEN /\ view' = view
                        /\ last' = [op |-> "get_original", status |-> "raised",
                                    dl |-> Some(d.res), loaded |-> FALSE, ret |-> None]
                   ELSE LET maps == Some(OrigMaps(d.disk[orig_data_file(cls[1])]))
                        IN  /\ view' = Some([v EXCEPT !.orig_gtmaps = maps])
                            /\ last' = [op |-> "get_original", status |-> "ok",
                                        dl |-> Some(d.res), loaded |-> TRUE, ret |-> maps]
    /\ UNCHANGED tree

-----------------------------------------------------------------------------
(* The specifications. *)

\* the forms of download() the class itself calls, and the call line 113 rejects
DownloadArgs ==
    {<<ShapeArg(DefaultShape), None>>, <<None, None>>}
    \cup {<<None, Some(c)>> : c \in {0, 3}}

Indices == IF view = None THEN {} ELSE 1..Len(view[1].data)

\* the calls that change the files
BuilderCalls(Cfgs) ==
    \/ \E cfg \in Cfgs, io \in IoOutcomes : Construct(cfg, io)
    \/ \E a \in DownloadArgs, io \in IoOutcomes : DownloadCall(a[1], a[2], io)

\* the calls on a constructed view
ViewCalls ==
    \/ LenCall
    \/ \E index \in Indices, pm \in TransformOutputs : GetItem(index, pm)
    \/ \E io \in IoOutcomes : GetOriginalGtmaps(io)

InitWith(ts) ==
    /\ tree \in ts
    /\ downloaded = FALSE
    /\ disk = <<>>
    /\ tmpDirs = 0
    /\ view = None
    /\ last = [op |-> "none", status |-> "ok", dl |-> NoDownload]

\* the builder over every raw tree, under the configurations that reach it
BuildCfgs ==
    {[DefaultCfg EXCEPT !.split = s, !.download = d] :
        s \in {"train", "test"}, d \in BOOLEAN}

Init == InitWith(Trees)
Next == BuilderCalls(BuildCfgs)
Spec == Init /\ [][Next]_vars

\* the view over two raw trees, under every configuration
ViewTrees ==
    {TreeOf(<<<<"bottle", "test", "good">>, <<"bottle", "test", "scratch">>,
              <<"bottle", "train", "good">>>>),
     TreeOf(<<<<"carpet", "test", "crack">>, <<"bottle", "train", "good">>,
              <<"carpet", "train", "good">>>>)}

LabelPairs ==
    {<<0, 1>>, <<1, 0>>, <<1, 2>>, <<2, 0>>, <<2, 1>>, <<0, 2>>, <<0, -3>>, <<1, -3>>, <<-3, 1>>}

GetCfgs ==
    {[DefaultCfg EXCEPT !.split = s, !.nominal_label = lp[1],
                        !.anomalous_label = lp[2], !.target_transform = tt,
                        !.img_gt_transform = gtt] :
        s \in Splits, lp \in LabelPairs,
        tt \in {None, Some("one_vs_rest"), Some("succ")},
        gtt \in {None, Some("resize_totensor")}}

EnlargeCfgs ==
    {[DefaultCfg EXCEPT !.split = s, !.enlarge = TRUE, !.target_transform = tt] :
        s \in Splits, tt \in {None, Some("succ")}}

OrigCfgs ==
    {[DefaultCfg EXCEPT !.split = s, !.normal_classes = nc, !.all_transform = at,
                        !.img_gt_transform = gtt] :
        s \in Splits \cup {"val"}, nc \in {<<>>, <<0>>, <<3>>, <<0, 3>>},
        at \in {None, Some("augment")},
        gtt \in {None, Some("resize_totensor"), Some("normalize")}}

ViewCfgs == GetCfgs \cup EnlargeCfgs \cup OrigCfgs

InitView == InitWith(ViewTrees)
\* one view is constructed and then used
FirstConstruct ==
    /\ view = None
    /\ \E cfg \in ViewCfgs, io \in IoOutcomes : Construct(cfg, io)
NextView == FirstConstruct \/ ViewCalls
SpecView == InitView /\ [][NextView]_vars


-----------------------------------------------------------------------------
(* Properties of the builder, checked under Spec. *)

Archives == {disk[f] : f \in DOMAIN disk}
ClassId(lbl) == (CHOOSE k \in 1..Len(labels) : labels[k] = lbl) - 1

\* C1: in every archive download() has persisted, train_data and train_labels
\* have one length, the four test sequences have one length, and every id in
\* test_anomaly_labels is an index of anomaly_label_strings.
C1_ArchiveShape ==
    \A a \in Archives :
        /\ Len(a.train_data) = Len(a.train_labels)
        /\ Len(a.test_data) = Len(a.test_labels)
        /\ Len(a.test_data) = Len(a.test_maps)
        /\ Len(a.test_data) = Len(a.test_anomaly_labels)
        /\ \A i \in 1..Len(a.test_anomaly_labels) :
              /\ a.test_anomaly_labels[i] >= 0
              /\ a.test_anomaly_labels[i] < Len(a.anomaly_label_strings)

\* an all-class archive and a single-class one, each with a normal and a defective test image
C1_Witness ==
    /\ data_file(DefaultShape) \in DOMAIN disk
    /\ \E c \in 0..(Len(labels) - 1) : orig_data_file(c) \in DOMAIN disk
    /\ \A a \in Archives :
          /\ Len(a.test_data) >= 2
          /\ \E i \in 1..Len(a.test_data) : a.test_anomaly_labels[i] >= 1

\* the classes an archive file is built from, in the order of the loop
ClassesOf(f) ==
    IF f = data_file(DefaultShape) THEN labels
    ELSE <<labels[(CHOOSE c \in 0..(Len(labels) - 1) : f = orig_data_file(c)) + 1]>>

\* the test directories that hold images, class by class in the given order
\* and name by name in lexicographic order
RECURSIVE TraversalNames(_)
TraversalNames(cl) ==
    IF cl = <<>> THEN <<>>
    ELSE SelectSeq(SortedNames, LAMBDA n : NumFiles(tree, <<Head(cl), "test", n>>) > 0)
         \o TraversalNames(Tail(cl))

\* the names other than "good", each at its first occurrence
RECURSIVE FirstSeen(_, _)
FirstSeen(names, acc) ==
    IF names = <<>> THEN acc
    ELSE FirstSeen(Tail(names),
                   IF Head(names) = "good" \/ \E i \in 1..Len(acc) : acc[i] = Head(names)
                   THEN acc ELSE Append(acc, Head(names)))

\* C2: in every archive anomaly_label_strings[0] is "good", the other names
\* follow with the ids 1, 2, 3, ... in the order in which the traversal (classes
\* in enumeration order, test directories in lexicographic order) first loads
\* an image of them, and every test image carries the id of its directory's name.
C2_FirstSeenIds ==
    \A f \in DOMAIN disk :
        LET a == disk[f]
        IN  /\ a.anomaly_label_strings[1] = "good"
            /\ a.anomaly_label_strings
                 = <<"good">> \o FirstSeen(TraversalNames(ClassesOf(f)), <<>>)
            /\ \A i \in 1..Len(a.test_data) :
                  a.anomaly_label_strings[a.test_anomaly_labels[i] + 1]
                    = a.test_data[i].src[3]

\* no "good" directory is visited and the ids are not in lexicographic order:
\* "scratch" of the first class comes before "crack" of a later one
C2_Witness ==
    /\ data_file(DefaultShape) \in DOMAIN disk
    /\ disk[data_file(DefaultShape)].anomaly_label_strings = <<"good", "scratch", "crack">>
    /\ disk[data_file(DefaultShape)].test_anomaly_labels = <<1, 2>>

\* C3: a run of download() starts a build exactly when the cache file is not
\* there; a run that finds the file fetches, extracts and writes nothing; a build
\* in which no step raises persists the archive; no step changes or removes
\* a file that is persisted.
C3_BuildOnlyWhenAbsent ==
    [][ /\ \A f \in DOMAIN disk : f \in DOMAIN disk' /\ disk'[f] = disk[f]
        /\ (last'.dl # NoDownload /\ last'.dl[1].status # "AssertionError") =>
              LET r == last'.dl[1]
              IN  /\ r.hit <=> (r.path \in DOMAIN disk)
                  /\ r.hit =>
                        /\ ~r.fetcher_called /\ ~r.url_fetched /\ ~r.extracted /\ ~r.wrote
                        /\ disk' = disk /\ tmpDirs' = tmpDirs /\ downloaded' = downloaded
                  /\ ~r.hit =>
                        /\ r.fetcher_called
                        /\ r.status \in {"saved", "raised"}
                        /\ (r.status = "saved") <=> r.wrote
                        /\ r.wrote <=> (r.path \in DOMAIN disk')
      ]_vars

\* a download() that found its cache file, after the one that built it
C3_Witness ==
    /\ last.dl # NoDownload
    /\ last.dl[1].status = "cached"
    /\ last.dl[1].path \in DOMAIN disk
    /\ tmpDirs = 1

\* C9: no temporary extraction directory exists once download() has returned
\* or raised.
C9_TmpDirsRemoved == tmpDirs = 0

\* C10: in every archive each train label and each test label is the class id
\* of the class directory its image was loaded from.
C10_LabelsAreClassIds ==
    \A a \in Archives :
        /\ \A i \in 1..Len(a.train_labels) :
              a.train_labels[i] = ClassId(a.train_data[i].src[1])
        /\ \A i \in 1..Len(a.test_labels) :
              a.test_labels[i] = ClassId(a.test_data[i].src[1])


-----------------------------------------------------------------------------
(* Properties of the view, checked under SpecView. *)

\* the archive the view is loaded from, and the sequences of its split
ViewArchive == disk[data_file(view[1].cfg.shape)]
IsTrain == view[1].cfg.split = "train"
SplitData == IF IsTrain THEN ViewArchive.train_data ELSE ViewArchive.test_data
SplitLabels == IF IsTrain THEN ViewArchive.train_labels ELSE ViewArchive.test_labels

\* C4: a view constructed with enlarge over a split of n samples has 10 * n
\* items, len(view) returns 10 * n, item i of the images, labels, maps and
\* defect-category ids is item i mod n of the split, and a train view has
\* neither maps nor defect-category ids.
C4_TenfoldReplication ==
    (view # None /\ view[1].cfg.enlarge) =>
        LET v == view[1]
            n == Len(SplitData)
            at(i) == ((i - 1) % n) + 1
        IN  /\ Len(v.data) = 10 * n
            /\ Len(v.targets) = 10 * n
            /\ last.op = "len" => last.ret = 10 * n
            /\ \A i \in 1..(10 * n) :
                  /\ v.data[i] = SplitData[at(i)]
                  /\ v.targets[i] = SplitLabels[at(i)]
            /\ IF IsTrain
               THEN v.gt = None /\ v.anomaly_labels = None
               ELSE /\ v.gt # None /\ v.anomaly_labels # None
                    /\ Len(v.gt[1]) = 10 * n
                    /\ Len(v.anomaly_labels[1]) = 10 * n
                    /\ \A i \in 1..(10 * n) :
                          /\ v.gt[1][i] = ViewArchive.test_maps[at(i)]
                          /\ v.anomaly_labels[1][i] = ViewArchive.test_anomaly_labels[at(i)]

\* len() of an enlarged test view over two different test images
C4_Witness ==
    /\ view # None
    /\ view[1].cfg.enlarge
    /\ view[1].cfg.split = "test"
    /\ Len(SplitData) = 2
    /\ SplitData[1] # SplitData[2]
    /\ last.op = "len"
    /\ last.ret = 20

\* the label the claim C5 names: the stored value, passed through the label
\* transform when one is configured
ClaimedLabel(v, index) ==
    LET stored == IF v.cfg.split = "test_anomaly_label_target"
                  THEN v.anomaly_labels[1][index]
                  ELSE v.targets[index]
    IN  IF v.cfg.target_transform = None THEN stored
        ELSE ApplyTargetTransform(v.cfg, stored)

\* a call of view[index] that neither line 78 nor lines 103-105 stop
GetItemPastLabel ==
    /\ last.op = "getitem"
    /\ view[1].cfg.nominal_label = 0 \/ view[1].cfg.img_gt_transform # None
    /\ ~(IsTrain /\ view[1].cfg.anomalous_label \notin {0, 1})

\* C5: view[index] returns as label the defect-category id at index for the
\* split test_anomaly_label_target and the stored label at index for the other
\* splits, passed through the label transform when one is configured and as
\* it is when none is.
C5_ReturnedLabel ==
    GetItemPastLabel =>
        /\ last.status = "ok"
        /\ last.label = ClaimedLabel(view[1], last.index)

C7_Reencoding ==
    (last.op = "getitem" /\ last.status = "ok") =>
        LET nominal == view[1].cfg.nominal_label
            anom == view[1].cfg.anomalous_label
        IN  IF nominal # 0
            THEN /\ last.reencoded
                 /\ -3 \notin {nominal, anom}
                 /\ DOMAIN last.gt = DOMAIN last.pre
                 /\ \A p \in DOMAIN last.pre :
                       last.gt[p] = (IF last.pre[p] = 0 THEN nominal
                                     ELSE IF last.pre[p] = 1 THEN anom
                                     ELSE last.pre[p])
            ELSE ~last.reencoded /\ last.gt = last.pre

\* nominal_label 1 and anomalous_label 0 on a map with a 0 and a 1
C7_Witness ==
    /\ last.op = "getitem" /\ last.status = "ok"
    /\ view[1].cfg.nominal_label = 1
    /\ view[1].cfg.anomalous_label = 0
    /\ \E p, q \in DOMAIN last.pre :
          /\ last.pre[p] = 0 /\ last.gt[p] = 1
          /\ last.pre[q] = 1 /\ last.gt[q] = 0

\* C8: get_original_gtmaps_normal_class() raises an assertion error, runs no
\* download(), loads nothing and leaves the view and the files as they are
\* when the split is train, when normal_classes does not hold exactly one
\* class or when all_transform is configured; with its preconditions met, a
\* call that finds no memoized table runs download() for the class, loads the
\* class's archive and stores the table, and a call that finds one returns it
\* and runs and loads nothing.
C8_OriginalMapsAccessor ==
    [][ (last'.op = "get_original" /\ view # None) =>
          LET cfg == view[1].cfg
              rejected == \/ cfg.split = "train"
                          \/ Len(cfg.normal_classes) # 1
                          \/ cfg.all_transform # None
              accepted == /\ ~rejected
                          /\ cfg.img_gt_transform = Some("resize_totensor")
          IN  /\ rejected =>
                    /\ last'.status = "AssertionError"
                    /\ last'.dl = NoDownload /\ ~last'.loaded
                    /\ view' = view /\ disk' = disk
                    /\ tmpDirs' = tmpDirs /\ downloaded' = downloaded
              /\ (accepted /\ view[1].orig_gtmaps # None) =>
                    /\ last'.status = "ok"
                    /\ last'.ret = view[1].orig_gtmaps
                    /\ last'.dl = NoDownload /\ ~last'.loaded
                    /\ view' = view /\ disk' = disk
                    /\ tmpDirs' = tmpDirs /\ downloaded' = downloaded
              /\ (accepted /\ view[1].orig_gtmaps = None) =>
                    /\ last'.dl # NoDownload
                    /\ last'.dl[1].path = orig_data_file(cfg.normal_classes[1])
                    /\ last'.status \in {"ok", "raised"}
                    /\ last'.status = "ok" =>
                          /\ last'.loaded
                          /\ last'.ret # None
                          /\ view'[1].orig_gtmaps = last'.ret
                          /\ Len(last'.ret[1])
                               = Len(disk'[orig_data_file(cfg.normal_classes[1])].test_maps)
                    /\ last'.status = "raised" => view' = view
      ]_vars

\* a second call returns the table the first one built and loaded
C8_Witness ==
    /\ last.op = "get_original" /\ last.status = "ok"
    /\ ~last.loaded /\ last.dl = NoDownload
    /\ last.ret = view[1].orig_gtmaps
    /\ last.ret # None
    /\ Len(last.ret[1]) > 0

=============================================================================
